---- MODULE Spec2Model ----
(***************************************************************************)
(* nate: construction of HTML tag trees and their serialisation            *)
(* (src/nate/tags.py).                                                     *)
(*                                                                         *)
(* A Python str is modelled as a sequence of one-character strings, so     *)
(* that escaping, joining and substring questions are decided character    *)
(* by character.  Objects (tags, iterators) live in heaps and are referred *)
(* to by their index.                                                      *)
(***************************************************************************)
EXTENDS Integers, Sequences, FiniteSets, TLC

VARIABLES heap, calls, iters, out, prev, threads

vars == <<heap, calls, iters, out, prev, threads>>

(***************************************************************************)
(* Bounds of the model.                                                    *)
(***************************************************************************)
\* longest caller-supplied text / attribute value / raw markup string
MaxLen == 2
\* largest number of tag objects built in one behaviour of the tree specification
MaxNodes == 3
\* largest number of elements wrapped around the object under test
MaxWrap == 2

(***************************************************************************)
(* Python str values.                                                      *)
(***************************************************************************)
\* the characters caller-supplied strings are drawn from: the five that
\* html.escape rewrites, and one that it leaves alone
Chars == {"&", "<", ">", "\"", "'", "a"}

Strings(n) == UNION {[1..k -> Chars] : k \in 0..n}

RECURSIVE Concat(_)
\* the concatenation of the strings of a sequence
Concat(strs) ==
    IF strs = <<>> THEN <<>> ELSE Head(strs) \o Concat(Tail(strs))

\* "".join(fragments), sixteen fragments at a time
Join(frags) ==
    LET n == Len(frags)
        part(k) == SubSeq(frags, 16 * (k - 1) + 1, IF 16 * k < n THEN 16 * k ELSE n)
    IN  Concat([k \in 1..((n + 15) \div 16) |-> Concat(part(k))])

RECURSIVE JoinWith(_, _)
\* sep.join(strs)
JoinWith(sep, strs) ==
    IF strs = <<>> THEN <<>>
    ELSE IF Len(strs) = 1 THEN strs[1]
    ELSE strs[1] \o sep \o JoinWith(sep, Tail(strs))

RECURSIVE replace_from(_, _, _, _)
\* the scan of str.replace from position j of the receiver on
replace_from(v, j, old, new) ==
    IF j > Len(v) THEN <<>>
    ELSE (IF v[j] = old THEN new ELSE <<v[j]>>) \o replace_from(v, j + 1, old, new)

\* str.replace(old, new) for a one-character old, on the value of the receiver
replace(s, old, new) == CHOOSE r \in {replace_from(v, 1, old, new) : v \in {s}} : TRUE

\* the five replacements with & rewritten last instead of first
escape_amp_last(s) ==
    LET s1 == replace(s, "<", <<"&", "l", "t", ";">>)
        s2 == replace(s1, ">", <<"&", "g", "t", ";">>)
        s3 == replace(s2, "\"", <<"&", "q", "u", "o", "t", ";">>)
        s4 == replace(s3, "'", <<"&", "#", "x", "2", "7", ";">>)
    IN  replace(s4, "&", <<"&", "a", "m", "p", ";">>)

\* html.escape(s, quote=True): five successive replacements, & first
escape(s) ==
    LET s1 == replace(s, "&", <<"&", "a", "m", "p", ";">>)
        s2 == replace(s1, "<", <<"&", "l", "t", ";">>)
        s3 == replace(s2, ">", <<"&", "g", "t", ";">>)
        s4 == replace(s3, "\"", <<"&", "q", "u", "o", "t", ";">>)
    IN  replace(s4, "'", <<"&", "#", "x", "2", "7", ";">>)

\* iterating a str (yield from <str>) delivers it one character at a time
CharsOf(s) == [i \in 1..Len(s) |-> <<s[i]>>]

(***************************************************************************)
(* Python values that callers pass as children, class_ and attributes.     *)
(***************************************************************************)
VStr(s) == [t |-> "str", s |-> s, items |-> <<>>, id |-> 0]
VNone == [t |-> "none", s |-> <<>>, items |-> <<>>, id |-> 0]
VInt == [t |-> "int", s |-> <<>>, items |-> <<>>, id |-> 0]
VList(items) == [t |-> "list", s |-> <<>>, items |-> items, id |-> 0]
VIter(k) == [t |-> "iter", s |-> <<>>, items |-> <<>>, id |-> k]
VNode(i) == [t |-> "node", s |-> <<>>, items |-> <<>>, id |-> i]

\* isinstance(v, str), isinstance(v, BaseTag), isinstance(v, Iterable)
IsStr(v) == v.t = "str"
IsBaseTag(v) == v.t = "node"
IsIterable(v) == v.t \in {"str", "list", "iter"}

(***************************************************************************)
(* Tag objects.  Every object is a record of the same shape; the fields a  *)
(* class does not declare hold a default that its methods never read.      *)
(***************************************************************************)
NoValue == VNone

SelfClosingTag(tag, attr, class_) ==
    [kind |-> "SelfClosingTag", tag |-> tag, children |-> NoValue,
     class_ |-> class_, attr |-> attr, prefix |-> <<>>, html |-> <<>>]

FullTag(tag, children, class_, attr) ==
    [kind |-> "FullTag", tag |-> tag, children |-> children,
     class_ |-> class_, attr |-> attr, prefix |-> <<>>, html |-> <<>>]

FullTagWithPrefix(prefix, tag, children, class_, attr) ==
    [kind |-> "FullTagWithPrefix", tag |-> tag, children |-> children,
     class_ |-> class_, attr |-> attr, prefix |-> prefix, html |-> <<>>]

DangerousHTML(html) ==
    [kind |-> "DangerousHTML", tag |-> <<>>, children |-> NoValue,
     class_ |-> NoValue, attr |-> <<>>, prefix |-> <<>>, html |-> html]

(***************************************************************************)
(* One-shot iterators: iter(list), map(...), generator expressions.  An    *)
(* iterator object holds the items it will deliver and a cursor; next()    *)
(* advances the cursor and never moves it back.                            *)
(***************************************************************************)
Iterator(items) == [items |-> items, pos |-> 0]

Exhausted(its, k) == its[k].pos >= Len(its[k].items)

Advance(its, k) == [its EXCEPT ![k].pos = @ + 1]

Drain(its, k) == [its EXCEPT ![k].pos = Len(its[k].items)]

Remaining(its, k) == SubSeq(its[k].items, its[k].pos + 1, Len(its[k].items))

(***************************************************************************)
(* Serialisation.  A generator run to completion is a record               *)
(*   frags : the fragments it yielded, in order                            *)
(*   its   : the iterator heap after the run                               *)
(*   err   : TRUE when the run ended by raising (TypeError)                *)
(***************************************************************************)
Yield(frags, its) == [frags |-> frags, its |-> its, err |-> FALSE]

Raise(frags, its) == [frags |-> frags, its |-> its, err |-> TRUE]

\* generator g1 followed by generator g2 (g2 already run from g1's final state)
Chain(g1, g2) ==
    IF g1.err THEN g1
    ELSE [frags |-> g1.frags \o g2.frags, its |-> g2.its, err |-> g2.err]

AllStr(items) == \A j \in 1..Len(items) : IsStr(items[j])

StrsOf(items) == [j \in 1..Len(items) |-> items[j].s]

\* class_to_html joining a str like any other iterable
class_to_html_join_str(class_, its) ==
    LET final == IF IsStr(class_) THEN JoinWith(<<" ">>, CharsOf(class_.s))
                 ELSE IF class_.t = "list" /\ AllStr(class_.items)
                      THEN JoinWith(<<" ">>, StrsOf(class_.items))
                      ELSE <<>>
    IN  IF final = <<>> THEN Yield(<<>>, its)
        ELSE Yield(<< <<" ", "c", "l", "a", "s", "s", "=", "\"">>, final, <<"\"">> >>, its)

\* class_to_html joining an iterator that starts again at every join
class_to_html_rewinding(class_, its) ==
    LET joined ==
            IF class_.t = "list" THEN
                [ok |-> AllStr(class_.items),
                 s |-> JoinWith(<<" ">>, StrsOf(class_.items)), its |-> its]
            ELSE IF class_.t = "iter" THEN
                [ok |-> AllStr(Remaining(its, class_.id)),
                 s |-> JoinWith(<<" ">>, StrsOf(Remaining(its, class_.id))),
                 its |-> its]
            ELSE [ok |-> FALSE, s |-> <<>>, its |-> its]
        final == IF IsStr(class_) THEN [ok |-> TRUE, s |-> class_.s, its |-> its]
                 ELSE joined
    IN  IF ~final.ok THEN Raise(<<>>, final.its)
        ELSE IF final.s = <<>> THEN Yield(<<>>, final.its)
        ELSE Yield(<< <<" ", "c", "l", "a", "s", "s", "=", "\"">>, final.s, <<"\"">> >>,
                   final.its)

\* class_to_html(class_)
class_to_html(class_, its) ==
    LET joined ==
            IF class_.t = "list" THEN
                [ok |-> AllStr(class_.items),
                 s |-> JoinWith(<<" ">>, StrsOf(class_.items)), its |-> its]
            ELSE IF class_.t = "iter" THEN
                [ok |-> AllStr(Remaining(its, class_.id)),
                 s |-> JoinWith(<<" ">>, StrsOf(Remaining(its, class_.id))),
                 its |-> Drain(its, class_.id)]
            ELSE [ok |-> FALSE, s |-> <<>>, its |-> its]
        final == IF IsStr(class_) THEN [ok |-> TRUE, s |-> class_.s, its |-> its]
                 ELSE joined
    IN  IF ~final.ok THEN Raise(<<>>, final.its)
        ELSE IF final.s = <<>> THEN Yield(<<>>, final.its)
        ELSE Yield(<< <<" ", "c", "l", "a", "s", "s", "=", "\"">>, final.s, <<"\"">> >>,
                   final.its)

RECURSIVE attr_loop_raw(_)
\* the for loop of attr_to_html with the value emitted as it is
attr_loop_raw(attr) ==
    IF attr = <<>> THEN <<>>
    ELSE LET k == Head(attr).k
             v == Head(attr).v
         IN  << <<" ">>, k >>
             \o (IF IsStr(v) THEN << <<"=", "\"">>, v.s, <<"\"">> >> ELSE <<>>)
             \o attr_loop_raw(Tail(attr))

RECURSIVE attr_loop_truthy(_)
\* the for loop of attr_to_html testing "if v:" instead of isinstance(v, str)
attr_loop_truthy(attr) ==
    IF attr = <<>> THEN <<>>
    ELSE LET k == Head(attr).k
             v == Head(attr).v
         IN  << <<" ">>, k >>
             \o (IF IsStr(v) /\ v.s # <<>>
                 THEN << <<"=", "\"">>, escape(v.s), <<"\"">> >> ELSE <<>>)
             \o attr_loop_truthy(Tail(attr))

RECURSIVE attr_loop(_)
\* the for loop of attr_to_html
attr_loop(attr) ==
    IF attr = <<>> THEN <<>>
    ELSE LET k == Head(attr).k
             v == Head(attr).v
         IN  << <<" ">>, k >>
             \o (IF IsStr(v) THEN << <<"=", "\"">>, escape(v.s), <<"\"">> >> ELSE <<>>)
             \o attr_loop(Tail(attr))

\* attr_to_html(attr)
attr_to_html(attr) ==
    IF Len(attr) = 0 THEN <<>> ELSE attr_loop(attr)

RECURSIVE to_html_run(_, _, _)
RECURSIVE children_list(_, _, _)
RECURSIVE children_iter(_, _, _)

\* the loop body writing str(child) for a child of any other type
child_to_html_str(h, child, its) ==
    IF IsBaseTag(child) THEN
        LET r == to_html_run(h, child.id, its)
        IN  [frags |-> CharsOf(r.html), its |-> r.its, err |-> r.err]
    ELSE IF IsStr(child) THEN Yield(<<escape(child.s)>>, its)
    ELSE Yield(<< <<"4", "2">> >>, its)

\* one pass of the body of "for child in self.children"
child_to_html(h, child, its) ==
    IF IsBaseTag(child) THEN
        LET r == to_html_run(h, child.id, its)
        IN  [frags |-> CharsOf(r.html), its |-> r.its, err |-> r.err]
    ELSE IF IsStr(child) THEN Yield(<<escape(child.s)>>, its)
    ELSE Yield(<<>>, its)

RECURSIVE children_list_reversed(_, _, _)
\* the for loop over a list taking the items last to first
children_list_reversed(h, items, its) ==
    IF items = <<>> THEN Yield(<<>>, its)
    ELSE LET g == child_to_html(h, items[Len(items)], its)
         IN  IF g.err THEN g
             ELSE Chain(g, children_list_reversed(h, SubSeq(items, 1, Len(items) - 1), g.its))

\* the for loop over a list
children_list(h, items, its) ==
    IF items = <<>> THEN Yield(<<>>, its)
    ELSE LET g == child_to_html(h, Head(items), its)
         IN  IF g.err THEN g ELSE Chain(g, children_list(h, Tail(items), g.its))

\* the for loop over a one-shot iterator skipping every second item
children_iter_skipping(h, k, its) ==
    IF Exhausted(its, k) THEN Yield(<<>>, its)
    ELSE LET child == its[k].items[its[k].pos + 1]
             g == child_to_html(h, child, Advance(Advance(its, k), k))
         IN  IF g.err THEN g ELSE Chain(g, children_iter(h, k, g.its))

\* the for loop over an iterator that starts again once it has run out
children_iter_rewinding(h, k, its) ==
    IF Exhausted(its, k) THEN Yield(<<>>, [its EXCEPT ![k].pos = 0])
    ELSE LET child == its[k].items[its[k].pos + 1]
             g == child_to_html(h, child, Advance(its, k))
         IN  IF g.err THEN g ELSE Chain(g, children_iter(h, k, g.its))

\* the for loop over a one-shot iterator: next() until StopIteration
children_iter(h, k, its) ==
    IF Exhausted(its, k) THEN Yield(<<>>, its)
    ELSE LET child == its[k].items[its[k].pos + 1]
             g == child_to_html(h, child, Advance(its, k))
         IN  IF g.err THEN g ELSE Chain(g, children_iter(h, k, g.its))

\* the children part of FullTag._to_html escaping what a child node rendered
children_to_html_escaping(h, children, its) ==
    IF IsBaseTag(children) THEN
        LET r == to_html_run(h, children.id, its)
        IN  [frags |-> CharsOf(escape(r.html)), its |-> r.its, err |-> r.err]
    ELSE IF IsStr(children) THEN Yield(<<escape(children.s)>>, its)
    ELSE IF IsIterable(children) THEN
        IF children.t = "iter" THEN children_iter(h, children.id, its)
        ELSE children_list(h, children.items, its)
    ELSE Yield(<<>>, its)

\* the children part of FullTag._to_html
children_to_html(h, children, its) ==
    IF IsBaseTag(children) THEN
        LET r == to_html_run(h, children.id, its)
        IN  [frags |-> CharsOf(r.html), its |-> r.its, err |-> r.err]
    ELSE IF IsStr(children) THEN Yield(<<escape(children.s)>>, its)
    ELSE IF IsIterable(children) THEN
        IF children.t = "iter" THEN children_iter(h, children.id, its)
        ELSE children_list(h, children.items, its)
    ELSE Yield(<<>>, its)

\* SelfClosingTag._to_html yielding the attributes before the class attribute
SelfClosingTag_to_html_attr_first(self, its) ==
    LET c == class_to_html(self.class_, its)
    IN  Chain(Yield(<< <<"<">>, self.tag >> \o attr_to_html(self.attr), its),
        Chain(c, Yield(<< <<"/", ">">> >>, c.its)))

\* SelfClosingTag._to_html closing the element like a full tag
SelfClosingTag_to_html_end_tag(self, its) ==
    LET c == class_to_html(self.class_, its)
    IN  Chain(Yield(<< <<"<">>, self.tag >>, its),
        Chain(c,
              Yield(attr_to_html(self.attr) \o << <<">">>, <<"<", "/">>, self.tag, <<">">> >>,
                    c.its)))

\* SelfClosingTag._to_html
SelfClosingTag_to_html(self, its) ==
    LET c == class_to_html(self.class_, its)
    IN  Chain(Yield(<< <<"<">>, self.tag >>, its),
        Chain(c,
              Yield(attr_to_html(self.attr) \o << <<"/", ">">> >>, c.its)))

\* FullTag._to_html returning after the children, without the end tag
FullTag_to_html_unclosed(h, self, its) ==
    LET c == class_to_html(self.class_, its)
        open == Chain(Yield(<< <<"<">>, self.tag >>, its),
                Chain(c, Yield(attr_to_html(self.attr) \o << <<">">> >>, c.its)))
    IN  IF open.err THEN open ELSE Chain(open, children_to_html(h, self.children, open.its))

\* FullTag._to_html
FullTag_to_html(h, self, its) ==
    LET c == class_to_html(self.class_, its)
        open == Chain(Yield(<< <<"<">>, self.tag >>, its),
                Chain(c, Yield(attr_to_html(self.attr) \o << <<">">> >>, c.its)))
    IN  IF open.err THEN open
        ELSE LET kids == children_to_html(h, self.children, open.its)
             IN  IF kids.err THEN Chain(open, kids)
                 ELSE Yield(open.frags \o kids.frags
                                \o << <<"<", "/">>, self.tag, <<">">> >>,
                            kids.its)

\* FullTagWithPrefix._to_html yielding the prefix after the element
FullTagWithPrefix_to_html_prefix_last(h, self, its) ==
    LET element == FullTag_to_html(h, self, its)
    IN  Chain(element, Yield(<<self.prefix>>, element.its))

\* FullTagWithPrefix._to_html
FullTagWithPrefix_to_html(h, self, its) ==
    Chain(Yield(<<self.prefix>>, its), FullTag_to_html(h, self, its))

\* DangerousHTML._to_html escaping its string like a text child
DangerousHTML_to_html_escaped(self, its) == Yield(<<escape(self.html)>>, its)

\* DangerousHTML._to_html
DangerousHTML_to_html(self, its) == Yield(<<self.html>>, its)

\* method dispatch of self._to_html()
dispatch_to_html(h, self, its) ==
    IF self.kind = "SelfClosingTag" THEN SelfClosingTag_to_html(self, its)
    ELSE IF self.kind = "FullTag" THEN FullTag_to_html(h, self, its)
    ELSE IF self.kind = "FullTagWithPrefix" THEN FullTagWithPrefix_to_html(h, self, its)
    ELSE DangerousHTML_to_html(self, its)

\* BaseTag.to_html: "".join(self._to_html()), with the state it leaves behind
to_html_run(h, i, its) ==
    LET g == dispatch_to_html(h, h[i], its)
    IN  [frags |-> g.frags,
         html |-> IF g.err THEN <<>> ELSE Join(g.frags),
         its |-> g.its,
         err |-> g.err]


(***************************************************************************)
(* The constructor functions (Area .. Wbr, A .. Video, Html).  A call is   *)
(* its positional arguments and its keyword arguments in the order the     *)
(* caller wrote them; Python binds the declared parameters and collects    *)
(* the remaining keywords, in that order, into **attr.                     *)
(***************************************************************************)
KwChildren == <<"c", "h", "i", "l", "d", "r", "e", "n">>
KwClass == <<"c", "l", "a", "s", "s", "_">>

Kw(k, v) == [k |-> k, v |-> v]

HasKw(kwargs, name) == \E j \in 1..Len(kwargs) : kwargs[j].k = name

KwVal(kwargs, name) ==
    kwargs[CHOOSE j \in 1..Len(kwargs) : kwargs[j].k = name].v

DistinctKeys(kwargs) ==
    \A i, j \in 1..Len(kwargs) : kwargs[i].k = kwargs[j].k => i = j

\* the default argument []
DefaultList == VList(<<>>)

\* the parameter declared at position pos under name, else its default
BindParam(args, kwargs, pos, name) ==
    IF Len(args) >= pos THEN args[pos]
    ELSE IF HasKw(kwargs, name) THEN KwVal(kwargs, name)
    ELSE DefaultList

\* **attr: the keywords that name no declared parameter, in call order
BindAttr(kwargs, params) ==
    LET rest(e) == e.k \notin params IN SelectSeq(kwargs, rest)

\* the call binds without a TypeError: no surplus positional argument, no
\* keyword repeated, no parameter given both positionally and by keyword
CallOk(args, kwargs, params) ==
    /\ Len(args) <= Len(params)
    /\ DistinctKeys(kwargs)
    /\ \A p \in 1..Len(args) : ~HasKw(kwargs, params[p])

\* def Area(class_=[], **attr) ... def Wbr(class_=[], **attr)
VoidElement(tag, args, kwargs) ==
    SelfClosingTag(tag, BindAttr(kwargs, {KwClass}),
                   BindParam(args, kwargs, 1, KwClass))

\* def A(children=[], class_=[], **attr) ... def Video(...)
NormalElement(tag, args, kwargs) ==
    FullTag(tag, BindParam(args, kwargs, 1, KwChildren),
            BindParam(args, kwargs, 2, KwClass),
            BindAttr(kwargs, {KwChildren, KwClass}))

Doctype ==
    <<"<", "!", "D", "O", "C", "T", "Y", "P", "E", " ", "h", "t", "m", "l", ">">>

TagHtml == <<"h", "t", "m", "l">>

\* def Html(children=[], class_=[], **attr)
Html(args, kwargs) ==
    FullTagWithPrefix(Doctype, TagHtml,
                      BindParam(args, kwargs, 1, KwChildren),
                      BindParam(args, kwargs, 2, KwClass),
                      BindAttr(kwargs, {KwChildren, KwClass}))

(***************************************************************************)
(* State.                                                                  *)
(*   heap  : the tag objects constructed so far                            *)
(*   calls : calls[i] is the constructor call that returned heap[i]        *)
(*   iters : the one-shot iterator objects created so far                  *)
(*   out   : the latest to_html() call: the object, what it returned       *)
(*   prev  : the to_html() call before that                                *)
(***************************************************************************)
NoRender == [node |-> 0, frags |-> <<>>, html |-> <<>>, err |-> FALSE]

\* a call of the constructor fn
Call(fn, args, kwargs) == [fn |-> fn, args |-> args, kwargs |-> kwargs]

\* the two threads a program renders on
ThreadIds == {"a", "b"}

\* a thread that has not called to_html yet: the object it renders, the stack
\* of _to_html generators it runs, the text it has collected, whether it has
\* raised, and what it has done so far (children visited, items it took
\* from iterators, what its call returns when nothing else runs)
Idle ==
    [st |-> "idle", root |-> 0, stack |-> <<>>, buf |-> <<>>, err |-> FALSE,
     visits |-> 0, pulled |-> {}, alone |-> [html |-> <<>>, err |-> FALSE]]

Init ==
    /\ heap = <<>>
    /\ calls = <<>>
    /\ iters = <<>>
    /\ out = NoRender
    /\ prev = NoRender
    /\ threads = [t \in ThreadIds |-> Idle]

\* every reference held by v names an object that exists
RefsOk(v) ==
    /\ v.t = "node" => v.id \in 1..Len(heap)
    /\ v.t = "iter" => v.id \in 1..Len(iters)
    /\ v.t = "list" =>
          \A j \in 1..Len(v.items) :
              /\ v.items[j].t = "node" => v.items[j].id \in 1..Len(heap)
              /\ v.items[j].t \notin {"iter"}

CallRefsOk(args, kwargs) ==
    /\ \A j \in 1..Len(args) : RefsOk(args[j])
    /\ \A j \in 1..Len(kwargs) : RefsOk(kwargs[j].v)

\* the constructor call returned obj
Construct(call, obj) ==
    /\ heap' = Append(heap, obj)
    /\ calls' = Append(calls, call)
    /\ UNCHANGED <<iters, out, prev, threads>>

\* Br(...), Img(...), Input(...), Meta(...)
CallVoidElement(tag, args, kwargs) ==
    /\ CallOk(args, kwargs, <<KwClass>>)
    /\ CallRefsOk(args, kwargs)
    /\ Construct(Call(tag, args, kwargs), VoidElement(tag, args, kwargs))

\* P(...), Div(...), Span(...)
CallNormalElement(tag, args, kwargs) ==
    /\ CallOk(args, kwargs, <<KwChildren, KwClass>>)
    /\ CallRefsOk(args, kwargs)
    /\ Construct(Call(tag, args, kwargs), NormalElement(tag, args, kwargs))

\* Html(...)
CallHtml(args, kwargs) ==
    /\ CallOk(args, kwargs, <<KwChildren, KwClass>>)
    /\ CallRefsOk(args, kwargs)
    /\ Construct(Call(TagHtml, args, kwargs), Html(args, kwargs))

\* DangerousHTML(html)
CallDangerousHTML(html) ==
    Construct(Call(<<>>, <<VStr(html)>>, <<>>), DangerousHTML(html))

\* iter([...]), map(f, [...]), (x for x in [...])
CallIter(items) ==
    /\ RefsOk(VList(items))
    /\ iters' = Append(iters, Iterator(items))
    /\ UNCHANGED <<heap, calls, out, prev, threads>>

\* heap[i].to_html() taking the items off a children list as it renders them
Render_popping(i) ==
    /\ i \in 1..Len(heap)
    /\ LET r == to_html_run(heap, i, iters)
       IN  /\ out' = [node |-> i, frags |-> r.frags, html |-> r.html, err |-> r.err]
           /\ iters' = r.its
    /\ prev' = out
    /\ heap' = [heap EXCEPT ![i].children =
                    IF @.t = "list" THEN DefaultList ELSE @]
    /\ UNCHANGED <<calls, threads>>

\* heap[i].to_html() storing the empty list in place of an iterator it used up
Render_consuming(i) ==
    /\ i \in 1..Len(heap)
    /\ LET r == to_html_run(heap, i, iters)
       IN  /\ out' = [node |-> i, frags |-> r.frags, html |-> r.html, err |-> r.err]
           /\ iters' = r.its
    /\ prev' = out
    /\ heap' = [heap EXCEPT ![i].children =
                    IF @.t = "iter" THEN DefaultList ELSE @]
    /\ UNCHANGED <<calls, threads>>

\* heap[i].to_html()
Render(i) ==
    /\ i \in 1..Len(heap)
    /\ LET r == to_html_run(heap, i, iters)
       IN  /\ out' = [node |-> i, frags |-> r.frags, html |-> r.html, err |-> r.err]
           /\ iters' = r.its
    /\ prev' = out
    /\ UNCHANGED <<heap, calls, threads>>


(***************************************************************************)
(* Inputs of the tree specification.                                       *)
(***************************************************************************)
TagP == <<"p">>

\* the text of the end tag of an element
EndTag(tag) == <<"<", "/">> \o tag \o <<">">>
TagBr == <<"b", "r">>
AttrId == <<"i", "d">>
AttrLang == <<"l", "a", "n", "g">>

\* a hostile text
TreeTexts == {<<"<", "&">>}

\* raw markup handed to DangerousHTML
TreeRaws == {<<"<", "a", ">">>, Doctype}

\* a string that closes an attribute value and a tag
Breakout == <<"\"", ">">>

NewestRef == {VNode(j) : j \in {Len(heap)} \ {0}}

\* the items a children sequence is made of
TreeItems == NewestRef \cup {VStr(<<"<", "&">>)}

TreeSeqs == {<<x, y>> : x, y \in TreeItems}

(***************************************************************************)
(* Specification of tree building and rendering: any interleaving of       *)
(* constructor calls and to_html() calls on the objects built so far.      *)
(***************************************************************************)
\* Br(id="\">"), Br(class_="\">")
TreeBr ==
    /\ Len(heap) < MaxNodes
    /\ \E kv \in {Kw(AttrId, VStr(Breakout)), Kw(KwClass, VStr(Breakout))} :
          CallVoidElement(TagBr, <<>>, <<kv>>)

\* DangerousHTML("<a>")
TreeRaw ==
    /\ Len(heap) < MaxNodes
    /\ \E s \in TreeRaws : CallDangerousHTML(s)

\* P("<&")
TreeText ==
    /\ Len(heap) < MaxNodes
    /\ \E s \in TreeTexts : CallNormalElement(TagP, <<VStr(s)>>, <<>>)

\* P(node)
TreeParent ==
    /\ Len(heap) < MaxNodes
    /\ \E c \in NewestRef : CallNormalElement(TagP, <<c>>, <<>>)

\* P([item, ...])
TreeList ==
    /\ Len(heap) < MaxNodes
    /\ \E q \in TreeSeqs : CallNormalElement(TagP, <<VList(q)>>, <<>>)

\* Html(children=..., lang="\">"), Html(children=..., class_="a"),
\* Html(children=..., class_="<!DOCTYPE html>")
TreeHtml ==
    /\ Len(heap) < MaxNodes
    /\ \E c \in (IF heap = <<>> THEN {DefaultList} ELSE NewestRef),
          kv \in {Kw(AttrLang, VStr(Breakout)), Kw(KwClass, VStr(<<"a">>)),
                  Kw(KwClass, VStr(Doctype))} :
          CallHtml(<<>>, <<Kw(KwChildren, c), kv>>)

\* one to_html() call per behaviour, on any object built so far
TreeRender ==
    /\ out = NoRender
    /\ \E i \in 1..Len(heap) : Render(i)

Next ==
    \/ TreeBr
    \/ TreeRaw
    \/ TreeText
    \/ TreeParent
    \/ TreeList
    \/ TreeHtml
    \/ TreeRender

Spec == Init /\ [][Next]_vars

(***************************************************************************)
(* Specification of text and raw markup: the first object built carries    *)
(* an arbitrary string of at most MaxLen characters, as its whole children *)
(* value, as an item of its children sequence or as raw markup; further    *)
(* elements wrap it; to_html() is called on any of them.                   *)
(***************************************************************************)
TextStrings == Strings(MaxLen)

Plain == VStr(<<"a">>)

\* P(s)
TextWhole ==
    /\ heap = <<>>
    /\ \E s \in TextStrings : CallNormalElement(TagP, <<VStr(s)>>, <<>>)

\* P([s]), P([s, "a"]), P(["a", s])
TextItem ==
    /\ heap = <<>>
    /\ \E s \in TextStrings :
          \E q \in {<<VStr(s)>>, <<VStr(s), Plain>>, <<Plain, VStr(s)>>} :
              CallNormalElement(TagP, <<VList(q)>>, <<>>)

\* DangerousHTML(s)
TextRaw ==
    /\ heap = <<>>
    /\ \E s \in TextStrings : CallDangerousHTML(s)

\* P(node), P([node, "a"]) around the newest object
TextWrap ==
    /\ heap # <<>>
    /\ Len(heap) <= MaxWrap
    /\ \E c \in NewestRef :
          \E v \in {c, VList(<<c, Plain>>)} : CallNormalElement(TagP, <<v>>, <<>>)

TextRender ==
    /\ out = NoRender
    /\ \E i \in 1..Len(heap) : Render(i)

TextNext ==
    \/ TextWhole
    \/ TextItem
    \/ TextRaw
    \/ TextWrap
    \/ TextRender

SpecText == Init /\ [][TextNext]_vars


(***************************************************************************)
(* Specification of start tags: one constructor call with up to three      *)
(* keyword arguments (id, an attribute named "&", class_) in any order,    *)
(* one of them carrying an arbitrary value, then to_html().                *)
(***************************************************************************)
AttrAmp == <<"&">>

\* None and every string of at most MaxLen characters
AttrValues == {VNone} \cup {VStr(s) : s \in Strings(MaxLen)}

SmallValues == {VNone, VStr(<<"a">>)}

ClassNames == {<<>>, <<"a">>, <<"<">>}

ClassLists ==
    {VList(<<>>)} \cup {VList(<<VStr(a)>>) : a \in ClassNames}
        \cup {VList(<<VStr(a), VStr(b)>>) : a, b \in ClassNames}

\* every string of at most MaxLen characters and every list of at most two names
ClassValues == {VStr(s) : s \in Strings(MaxLen)} \cup ClassLists

SmallClasses == {VStr(<<"a", " ", "b">>), VList(<<VStr(<<"a">>), VStr(<<"b">>)>>)}

\* class values that spell an end tag, inside the quotes and after closing them
HostileClasses == {VStr(EndTag(TagBr)), VStr(Breakout \o EndTag(TagBr))}

\* the orders in which a caller can write some of the three keywords
KeyOrders ==
    {q \in UNION {[1..n -> {AttrId, AttrAmp, KwClass}] : n \in 0..3} :
        \A i, j \in 1..Len(q) : q[i] = q[j] => i = j}

\* the keyword arguments with the values of one choice, in every order
KwargsOf(idv, ampv, classv) ==
    LET val(k) == IF k = AttrId THEN idv ELSE IF k = AttrAmp THEN ampv ELSE classv
    IN  {[j \in 1..Len(q) |-> Kw(q[j], val(q[j]))] : q \in KeyOrders}

TagKwargs ==
    UNION ({KwargsOf(v, w, c) : v \in AttrValues, w \in SmallValues, c \in SmallClasses}
           \cup {KwargsOf(v, w, c) : v \in SmallValues, w \in SmallValues, c \in ClassValues})

\* Br(**kwargs)
TagVoid ==
    /\ heap = <<>>
    /\ \E kw \in TagKwargs : CallVoidElement(TagBr, <<>>, kw)

\* Br(children=s): a void element has no children parameter
TagVoidChildren ==
    /\ heap = <<>>
    /\ \E s \in Strings(MaxLen), c \in SmallClasses :
          \E kw \in {<<Kw(KwChildren, VStr(s))>>,
                     <<Kw(KwChildren, VStr(s)), Kw(KwClass, c)>>} :
              CallVoidElement(TagBr, <<>>, kw)

\* Br(class_="</br>"), Br(class_="\"></br>")
TagVoidHostile ==
    /\ heap = <<>>
    /\ \E c \in HostileClasses : CallVoidElement(TagBr, <<>>, <<Kw(KwClass, c)>>)

\* P(**kwargs)
TagNormal ==
    /\ heap = <<>>
    /\ \E kw \in TagKwargs : CallNormalElement(TagP, <<>>, kw)

\* the keyword arguments no declared type admits: an int or None as children
\* value, an int or None as class value, an int as attribute value
InvalidKwargs ==
    {<<Kw(KwChildren, VInt)>>, <<Kw(KwChildren, VNone)>>, <<Kw(KwClass, VInt)>>,
     <<Kw(KwClass, VNone)>>, <<Kw(AttrId, VInt)>>}

\* P(children=42), P(class_=42), P(id=42), Br(class_=None), Br(id=42)
TagInvalid ==
    /\ heap = <<>>
    /\ \E kw \in InvalidKwargs :
          \/ CallNormalElement(TagP, <<>>, kw)
          \/ CallVoidElement(TagBr, <<>>, kw)

TagRender ==
    /\ out = NoRender
    /\ \E i \in 1..Len(heap) : Render(i)

TagNext ==
    \/ TagVoid
    \/ TagVoidChildren
    \/ TagVoidHostile
    \/ TagNormal
    \/ TagInvalid
    \/ TagRender

SpecTag == Init /\ [][TagNext]_vars

(***************************************************************************)
(* Specification of repeated rendering: trees over lists and one-shot      *)
(* iterators, each object rendered any number of times in any order; prev  *)
(* and out hold the results of the two latest to_html() calls.             *)
(***************************************************************************)
MaxIters == 1

\* the items an iterator delivers
IterItems == {<<Plain, VStr(<<"<", "&">>)>>}

IterRefs == {VIter(k) : k \in 1..Len(iters)}

\* iter(["a", "<&"])
IterMake ==
    /\ Len(iters) < MaxIters
    /\ \E items \in IterItems : CallIter(items)

\* P(["a", "<&"])
IterText ==
    /\ Len(heap) < MaxNodes
    /\ \E c \in {VList(<<Plain, VStr(<<"<", "&">>)>>)} :
          CallNormalElement(TagP, <<c>>, <<>>)

\* P(iter([...]))
IterChildren ==
    /\ Len(heap) < MaxNodes
    /\ \E c \in IterRefs : CallNormalElement(TagP, <<c>>, <<>>)

\* P("a", class_=iter([...]))
IterClass ==
    /\ Len(heap) < MaxNodes
    /\ \E c \in IterRefs : CallNormalElement(TagP, <<Plain>>, <<Kw(KwClass, c)>>)

\* P(node), P([node, "<&"])
IterParent ==
    /\ Len(heap) < MaxNodes
    /\ \E c \in NewestRef :
          \/ CallNormalElement(TagP, <<c>>, <<>>)
          \/ CallNormalElement(TagP, <<VList(<<c, VStr(<<"<", "&">>)>>)>>, <<>>)

\* to_html() on any object built so far, as often as the caller likes
IterRender ==
    \E i \in 1..Len(heap) : Render(i)

IterNext ==
    \/ IterMake
    \/ IterText
    \/ IterChildren
    \/ IterClass
    \/ IterParent
    \/ IterRender

SpecIter == Init /\ [][IterNext]_vars

(***************************************************************************)
(* The lazy specification: leaves, one-shot iterators over nodes, texts    *)
(* and values of other types, elements holding an iterator or a list of    *)
(* such items, and renders in any order.                                   *)
(***************************************************************************)
\* the items an iterable yields: a node, a text, and values to_html skips
MixedSeqs ==
    {<<n, VStr(<<"<", "&">>)>> : n \in NewestRef}
        \cup {<<VStr(<<"<", "&">>), VInt, n>> : n \in NewestRef}

MixedLists ==
    {<<VNone, VList(<<Plain>>), VStr(<<"<", "&">>)>>}
        \cup {<<n, VInt, VStr(<<"<", "&">>)>> : n \in NewestRef}

\* Br(id="\">"), P("<&")
MixedLeaf ==
    /\ Len(heap) < MaxNodes
    /\ \/ CallVoidElement(TagBr, <<>>, <<Kw(AttrId, VStr(Breakout))>>)
       \/ CallNormalElement(TagP, <<VStr(<<"<", "&">>)>>, <<>>)

\* iter([...]): one iterator per behaviour
MixedIter ==
    /\ iters = <<>>
    /\ \E items \in MixedSeqs : CallIter(items)

\* P(it)
MixedLazy ==
    /\ Len(heap) < MaxNodes
    /\ \E c \in IterRefs : CallNormalElement(TagP, <<c>>, <<>>)

\* P([...])
MixedList ==
    /\ Len(heap) < MaxNodes
    /\ \E items \in MixedLists : CallNormalElement(TagP, <<VList(items)>>, <<>>)

MixedRender == \E i \in 1..Len(heap) : Render(i)

MixedNext ==
    \/ MixedLeaf
    \/ MixedIter
    \/ MixedLazy
    \/ MixedList
    \/ MixedRender

SpecMixed == Init /\ [][MixedNext]_vars

(***************************************************************************)
(* to_html step by step.  A thread that has called to_html runs a stack of *)
(* _to_html generators, one per element being rendered; what the           *)
(* generators share with other threads is the cursor of the one-shot       *)
(* iterators, which next() moves in one step.  One step of a thread opens  *)
(* an element (its start tag, or all of a void element or of raw markup),  *)
(* or visits the next child of the innermost open element, or, when there  *)
(* is no next child, closes it.                                            *)
(***************************************************************************)
Frame(id) == [id |-> id, pc |-> 1, ph |-> "open"]

\* the text to_html has collected grows by what a generator of thread t yields
Emit_shared(ths, t, chars) == [ths EXCEPT !["a"].buf = @ \o chars]

Emit(ths, t, chars) == [ths EXCEPT ![t].buf = @ \o chars]

\* the position the iterator stands at: a frame looping over an iterator
\* that keeps its own position
Cursor_private(its, k, f) == f.pc - 1

\* the position the iterator k stands at when the loop of frame f asks it
Cursor(its, k, f) == its[k].pos

\* the loop of frame f going on two children further
After_skipping(f) == [f EXCEPT !.pc = @ + 2]

\* the loop of frame f going on to its next child
After(f) == [f EXCEPT !.pc = @ + 1]

\* what one step of the thread th does: the thread afterwards, the text it
\* yields, the iterators afterwards
StepOf(th, its) ==
    LET n == Len(th.stack)
        f == th.stack[n]
        self == heap[f.id]
        rest == SubSeq(th.stack, 1, n - 1)
        pop == [th EXCEPT !.stack = rest, !.st = IF rest = <<>> THEN "done" ELSE "run"]
        fail == [th EXCEPT !.stack = <<>>, !.st = "done", !.err = TRUE, !.buf = <<>>]
        visited == [th EXCEPT !.visits = @ + 1, !.stack[n] = After(f)]
        item(v, th2, its2) ==
            IF IsBaseTag(v)
            THEN [th |-> [th2 EXCEPT !.stack = Append(@, Frame(v.id))], emit |-> <<>>,
                  its |-> its2]
            ELSE IF IsStr(v) THEN [th |-> th2, emit |-> escape(v.s), its |-> its2]
            ELSE [th |-> th2, emit |-> <<>>, its |-> its2]
        close == [th |-> pop, emit |-> EndTag(self.tag), its |-> its]
        c == self.children
    IN  IF f.ph = "open" THEN
            IF self.kind = "DangerousHTML"
            THEN [th |-> pop, emit |-> self.html, its |-> its]
            ELSE LET cl == class_to_html(self.class_, its)
                     start == <<"<">> \o self.tag \o Join(cl.frags)
                                  \o Join(attr_to_html(self.attr))
                 IN  IF cl.err THEN [th |-> fail, emit |-> <<>>, its |-> cl.its]
                     ELSE IF self.kind = "SelfClosingTag"
                     THEN [th |-> pop, emit |-> start \o <<"/", ">">>, its |-> cl.its]
                     ELSE [th |-> [th EXCEPT !.stack[n].ph = "children"],
                           emit |-> self.prefix \o start \o <<">">>, its |-> cl.its]
        ELSE IF IsBaseTag(c) \/ IsStr(c) THEN
            IF f.pc = 1 THEN item(c, visited, its) ELSE close
        ELSE IF c.t = "list" THEN
            IF f.pc <= Len(c.items) THEN item(c.items[f.pc], visited, its) ELSE close
        ELSE IF c.t = "iter" THEN
            LET k == c.id
                pos == Cursor(its, k, f)
            IN  IF pos >= Len(its[k].items) THEN close
                ELSE item(its[k].items[pos + 1],
                          [visited EXCEPT !.pulled = @ \cup {<<k, pos + 1>>}],
                          [its EXCEPT ![k].pos = pos + 1])
        ELSE close

\* thread t calls heap[i].to_html()
Start(t, i) ==
    /\ threads[t].st = "idle"
    /\ i \in 1..Len(heap)
    /\ LET r == to_html_run(heap, i, iters)
       IN  threads' = [threads EXCEPT ![t] =
                          [Idle EXCEPT !.st = "run", !.root = i, !.stack = <<Frame(i)>>,
                                       !.alone = [html |-> r.html, err |-> r.err]]]
    /\ UNCHANGED <<heap, calls, iters, out, prev>>

\* thread t runs one step of its to_html call
Step(t) ==
    /\ threads[t].st = "run"
    /\ LET r == StepOf(threads[t], iters)
       IN  /\ threads' = Emit([threads EXCEPT ![t] = r.th], t, r.emit)
           /\ iters' = r.its
    /\ UNCHANGED <<heap, calls, out, prev>>

(***************************************************************************)
(* The thread specification: a program builds leaves, an iterator, lists   *)
(* and lazy elements, then renders on two threads.                         *)
(***************************************************************************)
\* largest number of tag objects the threads render from
MaxShared == 2

NoneStarted == \A t \in ThreadIds : threads[t].st = "idle"

ThreadSeqs ==
    {<<Plain, VStr(<<"<", "&">>)>>} \cup {<<n, VStr(<<"<", "&">>)>> : n \in NewestRef}

ThreadLists == {<<n, VInt, n>> : n \in NewestRef}

\* P("<&"), P(class_=42)
ThreadLeaf ==
    /\ NoneStarted
    /\ Len(heap) < MaxShared
    /\ \/ CallNormalElement(TagP, <<VStr(<<"<", "&">>)>>, <<>>)
       \/ CallNormalElement(TagP, <<>>, <<Kw(KwClass, VInt)>>)

\* iter([...]): the one iterator the threads can meet at
ThreadIter ==
    /\ NoneStarted
    /\ iters = <<>>
    /\ \E items \in ThreadSeqs : CallIter(items)

\* P(it)
ThreadLazy ==
    /\ NoneStarted
    /\ Len(heap) < MaxShared
    /\ \E c \in IterRefs : CallNormalElement(TagP, <<c>>, <<>>)

\* P([...])
ThreadList ==
    /\ NoneStarted
    /\ Len(heap) < MaxShared
    /\ \E items \in ThreadLists : CallNormalElement(TagP, <<VList(items)>>, <<>>)

\* the second thread starts after the first
ThreadStart ==
    \E t \in ThreadIds, i \in 1..Len(heap) :
        /\ t = "b" => threads["a"].st # "idle"
        /\ Start(t, i)

ThreadStep == \E t \in ThreadIds : Step(t)

ThreadNext ==
    \/ ThreadLeaf
    \/ ThreadIter
    \/ ThreadLazy
    \/ ThreadList
    \/ ThreadStart
    \/ ThreadStep

SpecThreads == Init /\ [][ThreadNext]_vars

\* every started to_html call keeps running: a thread is scheduled again
SpecThreadsFair == SpecThreads /\ \A t \in ThreadIds : WF_vars(Step(t))

(***************************************************************************)
(* Vocabulary of the properties.                                           *)
(***************************************************************************)
\* the character reference that stands for one character in text
EntityOf(c) ==
    CASE c = "&" -> <<"&", "a", "m", "p", ";">>
      [] c = "<" -> <<"&", "l", "t", ";">>
      [] c = ">" -> <<"&", "g", "t", ";">>
      [] c = "\"" -> <<"&", "q", "u", "o", "t", ";">>
      [] c = "'" -> <<"&", "#", "x", "2", "7", ";">>
      [] OTHER -> <<c>>

\* s with every character replaced by its character reference
EntityText(s) == Join([j \in 1..Len(s) |-> EntityOf(s[j])])

StartsWith(s, p) == Len(p) <= Len(s) /\ SubSeq(s, 1, Len(p)) = p

EndsWith(s, p) == Len(p) <= Len(s) /\ SubSeq(s, Len(s) - Len(p) + 1, Len(s)) = p

\* the positions at which sub occurs in s
Occurrences(sub, s) ==
    {j \in 1..(Len(s) - Len(sub) + 1) : SubSeq(s, j, j + Len(sub) - 1) = sub}

Contains(s, sub) == Occurrences(sub, s) # {}

\* a to_html() call has returned a string for the object self
Rendered(r) == r.node # 0 /\ ~r.err

\* the object the latest to_html() call was made on
Self == heap[out.node]

NoClass(self) == self.class_ = DefaultList
NoAttr(self) == self.attr = <<>>

\* what a string item or an already built node contributes to its parent
ItemText(v) ==
    IF IsStr(v) THEN EntityText(v.s)
    ELSE IF IsBaseTag(v) THEN to_html_run(heap, v.id, iters).html
    ELSE <<>>

(***************************************************************************)
(* C1.  A string used as a text child of a full element, as the whole      *)
(* children value or as an item of a children sequence, is emitted with    *)
(* & < > " ' replaced by &amp; &lt; &gt; &quot; &#x27; and every other     *)
(* character unchanged, directly between the start tag and the end tag.    *)
(***************************************************************************)
C1_TextEscaped ==
    (Rendered(out) /\ Self.kind = "FullTag" /\ NoClass(Self) /\ NoAttr(Self)) =>
        /\ IsStr(Self.children) =>
              out.html = <<"<">> \o Self.tag \o <<">">>
                           \o EntityText(Self.children.s) \o EndTag(Self.tag)
        /\ Self.children.t = "list" =>
              out.html = <<"<">> \o Self.tag \o <<">">>
                           \o Join([j \in 1..Len(Self.children.items) |->
                                       ItemText(Self.children.items[j])])
                           \o EndTag(Self.tag)

\* P("&'") has been rendered as <p>&amp;&#x27;</p>
C1_Witness ==
    /\ Rendered(out)
    /\ Self.children = VStr(<<"&", "'">>)
    /\ out.html = <<"<", "p", ">", "&", "a", "m", "p", ";",
                    "&", "#", "x", "2", "7", ";", "<", "/", "p", ">">>


(***************************************************************************)
(* The tag structure of a tree and of a rendered string.                   *)
(***************************************************************************)
\* the characters that delimit markup
MarkupChars == {"<", ">", "\"", "=", " ", "/"}

SafeIdentifier(s) == \A j \in 1..Len(s) : s[j] \notin MarkupChars

SafeClass(class_) ==
    \/ IsStr(class_) /\ \A j \in 1..Len(class_.s) : class_.s[j] \notin {"<", ">", "\""}
    \/ /\ class_.t = "list"
       /\ \A j \in 1..Len(class_.items) :
             IsStr(class_.items[j]) /\ SafeIdentifier(class_.items[j].s)

\* the objects reachable from object i through children values, i included
RECURSIVE Descendants(_, _)
Descendants(h, i) ==
    LET c == h[i].children
        direct == IF IsBaseTag(c) THEN {c.id}
                  ELSE IF c.t = "list"
                       THEN {c.items[j].id : j \in {k \in 1..Len(c.items) : IsBaseTag(c.items[k])}}
                       ELSE {}
    IN  {i} \cup UNION {Descendants(h, j) : j \in direct}

\* no raw markup, no one-shot iterator, and safe tag, attribute and class names
SafeTree(h, i) ==
    \A d \in Descendants(h, i) :
        /\ h[d].kind # "DangerousHTML"
        /\ SafeIdentifier(h[d].tag)
        /\ SafeClass(h[d].class_)
        /\ h[d].children.t # "iter"
        /\ \A j \in 1..Len(h[d].attr) : SafeIdentifier(h[d].attr[j].k)

RECURSIVE AttrNames(_)
AttrNames(attr) ==
    IF attr = <<>> THEN <<>> ELSE <<" ">> \o Head(attr).k \o AttrNames(Tail(attr))

ClassName(class_) ==
    IF class_ \in {VStr(<<>>), VList(<<>>)} \/ (class_.t = "list" /\ JoinWith(<<" ">>, StrsOf(class_.items)) = <<>>)
    THEN <<>> ELSE <<" ", "c", "l", "a", "s", "s">>

RECURSIVE Skeleton(_, _)
RECURSIVE SkeletonOfItems(_, _)
\* the start tags (with attribute names, without values), end tags and literal
\* prefixes of the tree under object i, in document order; it does not depend
\* on any text child or attribute value
Skeleton(h, i) ==
    LET self == h[i]
        names == ClassName(self.class_) \o AttrNames(self.attr)
        c == self.children
        inner == IF IsBaseTag(c) THEN Skeleton(h, c.id)
                 ELSE IF c.t = "list" THEN SkeletonOfItems(h, c.items)
                 ELSE <<>>
    IN  IF self.kind = "SelfClosingTag" THEN <<"<">> \o self.tag \o names \o <<"/", ">">>
        ELSE IF self.kind = "DangerousHTML" THEN <<>>
        ELSE self.prefix \o <<"<">> \o self.tag \o names \o <<">">> \o inner
                 \o EndTag(self.tag)

SkeletonOfItems(h, items) ==
    IF items = <<>> THEN <<>>
    ELSE (IF IsBaseTag(Head(items)) THEN Skeleton(h, Head(items).id) ELSE <<>>)
         \o SkeletonOfItems(h, Tail(items))

\* one step of an HTML tokenizer: "text" outside tags, "tag" inside < >, "eq"
\* after an = in a tag, "value" inside a quoted attribute value, "bad" after a
\* < > or " that is neither a tag delimiter nor the delimiter of an attribute
\* value.  skel keeps the tags without their attribute values.
ScanChar(st, c) ==
    LET to(mode) == [mode |-> mode, skel |-> st.skel]
        keep(mode) == [mode |-> mode, skel |-> Append(st.skel, c)]
    IN  CASE st.mode = "text" ->
                 (IF c = "<" THEN keep("tag")
                  ELSE IF c \in {">", "\""} THEN to("bad") ELSE to("text"))
          [] st.mode = "tag" ->
                 (IF c = ">" THEN keep("text")
                  ELSE IF c \in {"<", "\""} THEN to("bad")
                  ELSE IF c = "=" THEN to("eq") ELSE keep("tag"))
          [] st.mode = "eq" ->
                 (IF c = "\"" THEN to("value") ELSE to("bad"))
          [] st.mode = "value" ->
                 (IF c = "\"" THEN to("tag")
                  ELSE IF c \in {"<", ">"} THEN to("bad") ELSE to("value"))
          [] OTHER -> st

RECURSIVE Scan(_, _, _, _)
\* the tokenizer run over html[lo..hi] from state st
Scan(html, lo, hi, st) ==
    IF lo > hi THEN st
    ELSE IF lo = hi THEN ScanChar(st, html[lo])
    ELSE LET mid == (lo + hi) \div 2
             left == Scan(html, lo, mid, st)
         IN  IF left.mode = "bad" THEN left ELSE Scan(html, mid + 1, hi, left)

\* ok: html ends outside any tag with no stray delimiter; skel: its tags
TagStructure(html) ==
    LET st == Scan(html, 1, Len(html), [mode |-> "text", skel |-> <<>>])
    IN  [ok |-> st.mode = "text", skel |-> st.skel]

(***************************************************************************)
(* C2.  In the rendering of a tree without raw markup whose tag names,     *)
(* attribute names and class values are safe identifiers, every < and >    *)
(* delimits a tag the renderer emitted and every " delimits an attribute   *)
(* value: read as HTML, the output has exactly the start tags, attribute   *)
(* names and end tags of the tree, which no text child and no attribute    *)
(* value enters, so two trees that differ only in those have the same tag  *)
(* structure.                                                              *)
(***************************************************************************)
C2_StructureFixed ==
    (Rendered(out) /\ SafeTree(heap, out.node)) =>
        TagStructure(out.html) = [ok |-> TRUE, skel |-> Skeleton(heap, out.node)]

\* Html(children=P([Br(id="\">"), "<&"]), lang="\">") has been rendered
C2_Witness ==
    /\ Rendered(out)
    /\ out.node = 3
    /\ SafeTree(heap, 3)
    /\ heap[1] = VoidElement(TagBr, <<>>, <<Kw(AttrId, VStr(Breakout))>>)
    /\ heap[2].children = VList(<<VNode(1), VStr(<<"<", "&">>)>>)
    /\ heap[3].kind = "FullTagWithPrefix"
    /\ heap[3].children = VNode(2)
    /\ heap[3].attr = <<Kw(AttrLang, VStr(Breakout))>>

\* the attribute text the documentation of attr_to_html describes: per entry a
\* space and the name, then ="..." around the entity text of a string value
RECURSIVE AttrText(_)
AttrText(attr) ==
    IF attr = <<>> THEN <<>>
    ELSE <<" ">> \o Head(attr).k
         \o (IF IsStr(Head(attr).v)
             THEN <<"=", "\"">> \o EntityText(Head(attr).v.s) \o <<"\"">>
             ELSE <<>>)
         \o AttrText(Tail(attr))

\* the text that closes the start tag of self and, for a full element without
\* children, the element
Closing(self) ==
    IF self.kind = "SelfClosingTag" THEN <<"/", ">">>
    ELSE <<">">> \o EndTag(self.tag)

\* a void element, or a full element built without children
Childless(self) ==
    \/ self.kind = "SelfClosingTag"
    \/ self.kind = "FullTag" /\ self.children = DefaultList

\* what class_to_html contributes for the class value of self
ClassPart(self) == Join(class_to_html(self.class_, iters).frags)

\* what attr_to_html contributes for the attributes of self
AttrPart(self) == Join(attr_to_html(self.attr))

(***************************************************************************)
(* C3.  An attribute entry name -> v is rendered as a space, the name      *)
(* unescaped, then ="..." around the entity text of v when v is a string   *)
(* (the empty string included), and as a space and the bare name when v is *)
(* None; an empty mapping renders as nothing.                              *)
(***************************************************************************)
C3_AttrRendered ==
    (Rendered(out) /\ Childless(Self)) =>
        out.html = <<"<">> \o Self.tag \o ClassPart(Self) \o AttrText(Self.attr)
                     \o Closing(Self)

\* Br(**{"&": None}, id="") has been rendered as <br & id=""/>
C3_Witness ==
    /\ Rendered(out)
    /\ Self.attr = <<Kw(AttrAmp, VNone), Kw(AttrId, VStr(<<>>))>>
    /\ out.html = <<"<", "b", "r", " ", "&", " ", "i", "d", "=", "\"", "\"", "/", ">">>


RECURSIVE SpaceJoined(_)
\* the names separated by single spaces
SpaceJoined(names) ==
    IF names = <<>> THEN <<>>
    ELSE IF Len(names) = 1 THEN names[1]
    ELSE SpaceJoined(SubSeq(names, 1, Len(names) - 1)) \o <<" ">> \o names[Len(names)]

\* the class names of a class value as one string
ClassString(class_) ==
    IF IsStr(class_) THEN class_.s
    ELSE SpaceJoined([j \in 1..Len(class_.items) |-> class_.items[j].s])

\* the class attribute of a class value: nothing, or class="..." with the
\* class string as it is
ClassText(class_) ==
    IF ClassString(class_) = <<>> THEN <<>>
    ELSE <<" ", "c", "l", "a", "s", "s", "=", "\"">> \o ClassString(class_) \o <<"\"">>

ClassAB == <<" ", "c", "l", "a", "s", "s", "=", "\"", "a", " ", "b", "\"">>

(***************************************************************************)
(* C6.  The class renderer uses a string as it is and joins any other      *)
(* iterable with single spaces in iteration order; an empty result emits   *)
(* nothing, any other result emits  class="..." with the result unescaped. *)
(* [] and "" emit nothing; ["a","b"] and "a b" both emit class="a b".      *)
(***************************************************************************)
C6_ClassRendered ==
    (Rendered(out) /\ Childless(Self) /\ Self.class_.t \in {"str", "list"}) =>
        /\ out.html = <<"<">> \o Self.tag \o ClassText(Self.class_) \o AttrPart(Self)
                        \o Closing(Self)
        /\ Self.class_ \in {VList(<<>>), VStr(<<>>)} =>
              out.html = <<"<">> \o Self.tag \o AttrPart(Self) \o Closing(Self)
        /\ Self.class_ \in SmallClasses =>
              out.html = <<"<">> \o Self.tag \o ClassAB \o AttrPart(Self) \o Closing(Self)

\* P(class_=["a", "b"]) has been rendered as <p class="a b"></p>
C6_Witness ==
    /\ Rendered(out)
    /\ Self.class_ = VList(<<VStr(<<"a">>), VStr(<<"b">>)>>)
    /\ out.html = <<"<", "p">> \o ClassAB \o <<">", "<", "/", "p", ">">>


RECURSIVE Embedded(_, _)
\* the text of a tree of raw markup, text and full elements without class or
\* attributes: raw markup as it is, text as entity text, each element's
\* content between its start tag and its end tag
Embedded(h, i) ==
    LET self == h[i]
        c == self.children
        content == IF IsBaseTag(c) THEN Embedded(h, c.id)
                   ELSE IF IsStr(c) THEN EntityText(c.s)
                   ELSE Join([j \in 1..Len(c.items) |->
                                 IF IsBaseTag(c.items[j]) THEN Embedded(h, c.items[j].id)
                                 ELSE EntityText(c.items[j].s)])
    IN  IF self.kind = "DangerousHTML" THEN self.html
        ELSE <<"<">> \o self.tag \o <<">">> \o content \o EndTag(self.tag)

HasSpecial(s) == \E j \in 1..Len(s) : s[j] \in {"&", "<", ">", "\"", "'"}

(***************************************************************************)
(* C4.  A DangerousHTML node renders its string verbatim, when rendered    *)
(* directly and when embedded as a child of a full element at any depth;   *)
(* the same string given as a text child is rendered entity-escaped.       *)
(***************************************************************************)
C4_RawVerbatim ==
    Rendered(out) =>
        /\ Self.kind = "DangerousHTML" => out.html = Self.html
        /\ heap[1].kind = "DangerousHTML" => out.html = Embedded(heap, out.node)
        /\ (Self.kind = "FullTag" /\ IsStr(Self.children) /\ HasSpecial(Self.children.s)) =>
              /\ out.html # <<"<">> \o Self.tag \o <<">">> \o Self.children.s \o EndTag(Self.tag)
              /\ out.html = Embedded(heap, out.node)

\* P([P(DangerousHTML("<&")), "a"]) has been rendered as <p><p><&</p>a</p>
C4_Witness ==
    /\ Rendered(out)
    /\ out.node = 3
    /\ heap[1] = DangerousHTML(<<"<", "&">>)
    /\ heap[2].children = VNode(1)
    /\ heap[3].children = VList(<<VNode(2), Plain>>)
    /\ out.html = <<"<", "p", ">", "<", "p", ">", "<", "&", "<", "/", "p", ">", "a",
                    "<", "/", "p", ">">>

\* the start tag of self
StartTag(self) == <<"<">> \o self.tag \o ClassPart(self) \o AttrPart(self) \o <<">">>

(***************************************************************************)
(* C5.  Rendering a full element emits the start tag, then the renderings  *)
(* of its children in iteration order, each occurrence once, then the end  *)
(* tag with the same tag name, with nothing inserted between them.         *)
(***************************************************************************)
C5_ChildrenInOrder ==
    (Rendered(out) /\ Self.kind \in {"FullTag", "FullTagWithPrefix"}) =>
        LET c == Self.children
            n == Len(out.frags)
            content == IF c.t = "list"
                       THEN Join([j \in 1..Len(c.items) |-> ItemText(c.items[j])])
                       ELSE ItemText(c)
        IN  /\ out.html = Self.prefix \o StartTag(Self) \o content \o EndTag(Self.tag)
            /\ SubSeq(out.frags, n - 2, n) = << <<"<", "/">>, Self.tag, <<">">> >>
            /\ Self.kind = "FullTag" => SubSeq(out.frags, 1, 2) = << <<"<">>, Self.tag >>

\* the entity text of "<&"
LtAmp == <<"&", "l", "t", ";", "&", "a", "m", "p", ";">>

\* P([P(["<&", Br(...)]), "<&"]) has been rendered as
\* <p><p>&lt;&amp;<br .../></p>&lt;&amp;</p>
C5_Witness ==
    /\ Rendered(out)
    /\ out.node = 3
    /\ heap[1].kind = "SelfClosingTag"
    /\ heap[2].children = VList(<<VStr(<<"<", "&">>), VNode(1)>>)
    /\ heap[3].children = VList(<<VNode(2), VStr(<<"<", "&">>)>>)
    /\ out.html = <<"<", "p", ">", "<", "p", ">">> \o LtAmp
                    \o to_html_run(heap, 1, iters).html
                    \o <<"<", "/", "p", ">">> \o LtAmp \o <<"<", "/", "p", ">">>


RECURSIVE NamesIn(_)
\* the attribute names among the fragments of a start tag after its class
\* attribute: a space fragment announces a name, which an =" fragment, a value
\* and a " fragment may follow; the closing fragment ends the start tag
NamesIn(frags) ==
    IF frags = <<>> \/ Head(frags) # <<" ">> \/ Len(frags) < 2 THEN <<>>
    ELSE LET valued == Len(frags) >= 5 /\ frags[3] = <<"=", "\"">> /\ frags[5] = <<"\"">>
         IN  <<frags[2]>> \o NamesIn(SubSeq(frags, IF valued THEN 6 ELSE 3, Len(frags)))

\* the keywords of a call that name no declared parameter, in call order
AttributeKeywords(call, self) ==
    LET declared == IF self.kind = "SelfClosingTag" THEN {KwClass}
                    ELSE {KwChildren, KwClass}
        other(e) == e.k \notin declared
        kws == SelectSeq(call.kwargs, other)
    IN  [j \in 1..Len(kws) |-> kws[j].k]

(***************************************************************************)
(* C7.  In every start tag the fragments are: <, the tag name, the class   *)
(* attribute if the class value is not empty, then one attribute per       *)
(* keyword in the order the caller wrote them; the class attribute comes   *)
(* first wherever the caller wrote class_.                                 *)
(***************************************************************************)
C7_StartTagOrder ==
    (Rendered(out) /\ Childless(Self)) =>
        LET withClass == ClassString(Self.class_) # <<>>
            rest == SubSeq(out.frags, IF withClass THEN 6 ELSE 3, Len(out.frags))
        IN  /\ SubSeq(out.frags, 1, 2) = << <<"<">>, Self.tag >>
            /\ withClass =>
                  SubSeq(out.frags, 3, 5) =
                      << <<" ", "c", "l", "a", "s", "s", "=", "\"">>,
                         ClassString(Self.class_), <<"\"">> >>
            /\ NamesIn(rest) = AttributeKeywords(calls[out.node], Self)
            /\ Len(rest) > 0 /\ rest[Len(rest)] \notin {<<" ">>, <<"=", "\"">>}

\* Br(**{"&": None}, class_="a b", id="") has been rendered as
\* <br class="a b" & id=""/>
C7_Witness ==
    /\ Rendered(out)
    /\ calls[out.node] =
          Call(TagBr, <<>>, <<Kw(AttrAmp, VNone), Kw(KwClass, VStr(<<"a", " ", "b">>)),
                              Kw(AttrId, VStr(<<>>))>>)
    /\ out.html = <<"<", "b", "r">> \o ClassAB
                    \o <<" ", "&", " ", "i", "d", "=", "\"", "\"", "/", ">">>

\* no attribute name of self contains sub
NoNameContains(self, sub) ==
    \A j \in 1..Len(self.attr) : ~Contains(self.attr[j].k, sub)

(***************************************************************************)
(* C8.  A self-closing element renders as < + tag + class rendering +      *)
(* attribute rendering + />, whatever class value and keywords it was      *)
(* given (a children keyword included): it ends with /> and is nothing but *)
(* its start tag; it contains no end tag </tag> provided neither the class *)
(* string nor an attribute name contains the text </tag>.                  *)
(***************************************************************************)
C8_VoidShape ==
    (Rendered(out) /\ Self.kind = "SelfClosingTag") =>
        /\ out.html = <<"<">> \o Self.tag \o ClassPart(Self) \o AttrPart(Self) \o <<"/", ">">>
        /\ EndsWith(out.html, <<"/", ">">>)
        /\ (~Contains(ClassString(Self.class_), EndTag(Self.tag))
              /\ NoNameContains(Self, EndTag(Self.tag))) =>
              ~Contains(out.html, EndTag(Self.tag))

\* Br(children="<>", class_="a b") has been rendered as
\* <br class="a b" children="&lt;&gt;"/>
C8_Witness ==
    /\ Rendered(out)
    /\ calls[out.node] =
          Call(TagBr, <<>>, <<Kw(KwChildren, VStr(<<"<", ">">>)),
                              Kw(KwClass, VStr(<<"a", " ", "b">>))>>)
    /\ out.html = <<"<", "b", "r">> \o ClassAB
                    \o <<" ", "c", "h", "i", "l", "d", "r", "e", "n", "=", "\"",
                         "&", "l", "t", ";", "&", "g", "t", ";", "\"", "/", ">">>

\* C8 as first stated: no end tag for every class value and attribute mapping
C8_Original ==
    (Rendered(out) /\ Self.kind = "SelfClosingTag") =>
        /\ out.html = <<"<">> \o Self.tag \o ClassPart(Self) \o AttrPart(Self) \o <<"/", ">">>
        /\ EndsWith(out.html, <<"/", ">">>)
        /\ ~Contains(out.html, EndTag(Self.tag))


\* the rendering of self as a plain full element: start tag, the text of its
\* children in order, end tag
ElementText(self) ==
    LET c == self.children
        content == IF c.t = "list"
                   THEN Join([j \in 1..Len(c.items) |-> ItemText(c.items[j])])
                   ELSE ItemText(c)
    IN  StartTag(self) \o content \o EndTag(self.tag)

\* nothing below object i supplies the doctype text: no other document root,
\* no raw markup, class string or attribute name containing it
DoctypeFree(h, i) ==
    \A d \in Descendants(h, i) :
        /\ d # i => h[d].kind # "FullTagWithPrefix"
        /\ ~Contains(h[d].html, Doctype)
        /\ ~Contains(ClassString(h[d].class_), Doctype)
        /\ NoNameContains(h[d], Doctype)

IterFree(h, i) ==
    \A d \in Descendants(h, i) : h[d].children.t # "iter" /\ h[d].class_.t # "iter"

\* no children value below object i is a one-shot iterator
ChildrenIterFree(h, i) ==
    \A d \in Descendants(h, i) : h[d].children.t # "iter"

\* the text of the full element self when the node child i contributes html
\* and every other child its own text
TextAround(self, i, html) ==
    LET c == self.children
        text(v) == IF v = VNode(i) THEN html ELSE ItemText(v)
        content == IF c.t = "list" THEN Join([j \in 1..Len(c.items) |-> text(c.items[j])])
                   ELSE text(c)
    IN  StartTag(self) \o content \o EndTag(self.tag)

(***************************************************************************)
(* C10.  Two successive renders of the same tree give the same fragments   *)
(* and the same string when no children value and no class value in the    *)
(* tree is a one-shot iterator; and a subtree rendered on its own and then *)
(* as part of a larger such tree appears there with the same text.         *)
(***************************************************************************)
C10_Idempotent ==
    (Rendered(prev) /\ Rendered(out) /\ IterFree(heap, out.node)) =>
        /\ prev.node = out.node =>
              out.html = prev.html /\ out.frags = prev.frags
        /\ (prev.node # out.node /\ Self.children \in
                {VNode(prev.node), VList(<<VNode(prev.node), VStr(<<"<", "&">>)>>)}) =>
              /\ out.html = TextAround(Self, prev.node, prev.html)
              /\ Contains(out.html, prev.html)

\* P(["a", "<&"]) was rendered on its own, then P([P(["a", "<&"]), "<&"]) was
\* rendered, as <p><p>a&lt;&amp;</p>&lt;&amp;</p>
C10_Witness ==
    /\ Rendered(prev) /\ Rendered(out)
    /\ prev.node = 1 /\ out.node = 2
    /\ heap[1].children = VList(<<Plain, VStr(<<"<", "&">>)>>)
    /\ heap[2].children = VList(<<VNode(1), VStr(<<"<", "&">>)>>)
    /\ prev.html = <<"<", "p", ">", "a">> \o LtAmp \o <<"<", "/", "p", ">">>
    /\ out.html = <<"<", "p", ">">> \o prev.html \o LtAmp \o <<"<", "/", "p", ">">>

\* C10 as first stated: only the children values are required not to be
\* one-shot iterators
C10_Original ==
    (Rendered(prev) /\ Rendered(out) /\ ChildrenIterFree(heap, out.node)) =>
        /\ prev.node = out.node => out.html = prev.html
        /\ (prev.node # out.node /\ Self.children \in
                {VNode(prev.node), VList(<<VNode(prev.node), VStr(<<"<", "&">>)>>)}) =>
              out.html = TextAround(Self, prev.node, prev.html)


(***************************************************************************)
(* Steps of the program seen from outside: the step from the current state *)
(* to the next one is the call heap[i].to_html().                          *)
(***************************************************************************)
Rendering(i) ==
    /\ i \in 1..Len(heap)
    /\ heap' = heap
    /\ Len(iters') = Len(iters)
    /\ prev' = out
    /\ out'.node = i

\* the tree where the element i holds children instead of its children value
WithChildren(i, children) == [heap EXCEPT ![i].children = children]

\* the outcome of a render: the fragments, their concatenation, the error
Outcome(r) == [frags |-> r.frags, html |-> r.html, err |-> r.err]

(***************************************************************************)
(* C11.  A full element whose children value is a one-shot iterable that   *)
(* nothing has advanced yet renders as the element built with the list of  *)
(* the same items renders, and the render pulls every item of the iterable *)
(* exactly once, so that the iterable is exhausted afterwards.             *)
(***************************************************************************)
C11_Step ==
    \A i \in 1..Len(heap) :
        (/\ Rendering(i)
         /\ heap[i].kind = "FullTag"
         /\ heap[i].children.t = "iter"
         /\ iters[heap[i].children.id].pos = 0) =>
            LET k == heap[i].children.id
                asList == to_html_run(WithChildren(i, VList(iters[k].items)), i, iters)
            IN  /\ Outcome(out') = Outcome(asList)
                /\ iters'[k].pos = Len(iters[k].items)
                /\ \A j \in 1..Len(iters) : j # k => iters'[j] = asList.its[j]

C11_LazyAsList == [][C11_Step]_vars

\* P(iter([P("<&"), "<&"])) rendered for the first time
C11_Witness ==
    /\ Rendered(out)
    /\ prev = NoRender
    /\ Self.children.t = "iter"
    /\ iters[Self.children.id].pos = 2
    /\ \E n \in 1..Len(heap) :
          /\ iters[Self.children.id].items = <<VNode(n), VStr(<<"<", "&">>)>>
          /\ heap[n].tag = TagP
    /\ out.html = <<"<", "p", ">", "<", "p", ">", "&", "l", "t", ";", "&", "a", "m", "p", ";",
                    "<", "/", "p", ">", "&", "l", "t", ";", "&", "a", "m", "p", ";",
                    "<", "/", "p", ">">>

(***************************************************************************)
(* C12.  Inside an iterable children value an item that is neither a node  *)
(* nor a string emits nothing and raises no error: the element renders as  *)
(* the element holding the same items without these renders, so the items  *)
(* before and after keep their renderings.                                 *)
(***************************************************************************)
NodeOrStr(v) == IsBaseTag(v) \/ IsStr(v)

\* the items render step i iterates: of its list, or of its fresh iterator
Iterated(i) ==
    LET c == heap[i].children
    IN  IF c.t = "list" THEN c.items
        ELSE IF c.t = "iter" /\ iters[c.id].pos = 0 THEN iters[c.id].items
        ELSE <<>>

C12_Step ==
    \A i \in 1..Len(heap) :
        (/\ Rendering(i)
         /\ heap[i].kind = "FullTag"
         /\ \E j \in 1..Len(Iterated(i)) : ~NodeOrStr(Iterated(i)[j])) =>
            LET kept == SelectSeq(Iterated(i), NodeOrStr)
                without == to_html_run(WithChildren(i, VList(kept)), i, iters)
            IN  /\ Outcome(out') = Outcome(without)
                /\ ~out'.err
                /\ \A k \in 1..Len(iters) :
                      VIter(k) # heap[i].children => iters'[k] = without.its[k]

C12_OtherItemsSkipped == [][C12_Step]_vars

\* P([Br(id="\">"), 42, "<&"])
C12_Witness ==
    /\ Rendered(out)
    /\ Self.children.t = "list"
    /\ Len(Self.children.items) = 3
    /\ IsBaseTag(Self.children.items[1])
    /\ heap[Self.children.items[1].id].kind = "SelfClosingTag"
    /\ Self.children.items[2] = VInt
    /\ Self.children.items[3] = VStr(<<"<", "&">>)
    /\ out.html = <<"<", "p", ">",
                    "<", "b", "r", " ", "i", "d", "=", "\"", "&", "q", "u", "o", "t", ";",
                    "&", "g", "t", ";", "\"", "/", ">",
                    "&", "l", "t", ";", "&", "a", "m", "p", ";",
                    "<", "/", "p", ">">>

(***************************************************************************)
(* Trees with one-shot iterators: the objects a render of object i can     *)
(* reach follow the node child, the node items of a list and the node      *)
(* items of an iterator.                                                   *)
(***************************************************************************)
NodeIds(items) == {items[j].id : j \in {k \in 1..Len(items) : IsBaseTag(items[k])}}

RECURSIVE Below(_)
Below(i) ==
    LET c == heap[i].children
        direct == IF IsBaseTag(c) THEN {c.id}
                  ELSE IF c.t = "list" THEN NodeIds(c.items)
                  ELSE IF c.t = "iter" THEN NodeIds(iters[c.id].items)
                  ELSE {}
    IN  {i} \cup UNION {Below(j) : j \in direct}

\* the iterators held as children value by the objects of the tree of i
ChildrenIters(i) ==
    {heap[d].children.id : d \in {b \in Below(i) : heap[b].children.t = "iter"}}

RECURSIVE SpentText(_)
\* the text of object i when its exhausted iterators contribute nothing
SpentText(i) ==
    LET self == heap[i]
        c == self.children
        item(v) == IF IsBaseTag(v) THEN SpentText(v.id)
                   ELSE IF IsStr(v) THEN EntityText(v.s)
                   ELSE <<>>
        content == IF c.t = "list" THEN Join([j \in 1..Len(c.items) |-> item(c.items[j])])
                   ELSE item(c)
    IN  IF self.kind = "DangerousHTML" THEN self.html
        ELSE IF self.kind = "SelfClosingTag"
        THEN <<"<">> \o self.tag \o ClassPart(self) \o AttrText(self.attr) \o <<"/", ">">>
        ELSE self.prefix \o <<"<">> \o self.tag \o ClassPart(self) \o AttrText(self.attr)
                 \o <<">">> \o content \o EndTag(self.tag)

(***************************************************************************)
(* C14.  A tree holding a one-shot iterable as a children value can be     *)
(* rendered in full only once: a render leaves every such iterable of the  *)
(* tree exhausted, and every render after that raises nothing and emits    *)
(* each element holding one as its start tag immediately followed by its   *)
(* end tag, the elements holding lists, strings and nodes as before.       *)
(***************************************************************************)
C14_Step ==
    \A i \in 1..Len(heap) :
        Rendering(i) =>
            /\ ~out'.err => \A k \in ChildrenIters(i) : Exhausted(iters', k)
            /\ (\A k \in ChildrenIters(i) : Exhausted(iters, k)) =>
                  /\ ~out'.err
                  /\ out'.html = SpentText(i)
                  /\ iters' = iters
                  /\ heap[i].children.t = "iter" =>
                        out'.html = StartTag(heap[i]) \o EndTag(heap[i].tag)

C14_RenderedOnce == [][C14_Step]_vars

\* P([P(iter([P("<&"), "<&"])), 42, "<&"]) rendered twice: first in full,
\* then with the inner element empty and the text kept
C14_Witness ==
    /\ Rendered(out)
    /\ Rendered(prev)
    /\ prev.node = out.node
    /\ \E n \in 1..Len(heap) :
          /\ Self.children = VList(<<VNode(n), VInt, VStr(<<"<", "&">>)>>)
          /\ heap[n].children.t = "iter"
    /\ prev.html = <<"<", "p", ">", "<", "p", ">",
                     "<", "p", ">", "&", "l", "t", ";", "&", "a", "m", "p", ";",
                     "<", "/", "p", ">", "&", "l", "t", ";", "&", "a", "m", "p", ";",
                     "<", "/", "p", ">", "&", "l", "t", ";", "&", "a", "m", "p", ";",
                     "<", "/", "p", ">">>
    /\ out.html = <<"<", "p", ">", "<", "p", ">", "<", "/", "p", ">",
                    "&", "l", "t", ";", "&", "a", "m", "p", ";", "<", "/", "p", ">">>

(***************************************************************************)
(* C15.  Escaping is applied exactly once to each text child and once to   *)
(* each attribute string value, whatever the depth of the node: the output *)
(* of a tree without one-shot iterators is the text built bottom-up from   *)
(* the entity text of every string child and attribute value, with tag     *)
(* names, attribute names, the prefix, raw markup and the renderings of    *)
(* the child nodes inserted as they are.                                   *)
(***************************************************************************)
RECURSIVE EscapedOnce(_)
EscapedOnce(i) ==
    LET self == heap[i]
        c == self.children
        item(v) == IF IsBaseTag(v) THEN EscapedOnce(v.id)
                   ELSE IF IsStr(v) THEN EntityText(v.s)
                   ELSE <<>>
        content == IF c.t = "list" THEN Join([j \in 1..Len(c.items) |-> item(c.items[j])])
                   ELSE item(c)
    IN  IF self.kind = "DangerousHTML" THEN self.html
        ELSE IF self.kind = "SelfClosingTag"
        THEN <<"<">> \o self.tag \o ClassText(self.class_) \o AttrText(self.attr)
                 \o <<"/", ">">>
        ELSE self.prefix \o <<"<">> \o self.tag \o ClassText(self.class_)
                 \o AttrText(self.attr) \o <<">">> \o content \o EndTag(self.tag)

C15_EscapedOnce ==
    (Rendered(out) /\ IterFree(heap, out.node)) => out.html = EscapedOnce(out.node)

\* P([P(P("<&")), "<&"]): the text two levels down is escaped like the text
\* one level down
C15_Witness ==
    /\ Rendered(out)
    /\ out.node = 3
    /\ heap[1].children = VStr(<<"<", "&">>)
    /\ heap[2].children = VNode(1)
    /\ heap[3].children = VList(<<VNode(2), VStr(<<"<", "&">>)>>)
    /\ out.html = <<"<", "p", ">", "<", "p", ">", "<", "p", ">",
                    "&", "l", "t", ";", "&", "a", "m", "p", ";",
                    "<", "/", "p", ">", "<", "/", "p", ">",
                    "&", "l", "t", ";", "&", "a", "m", "p", ";", "<", "/", "p", ">">>

(***************************************************************************)
(* C16.  Rendering never mutates a node: after any sequence of to_html     *)
(* calls every object holds in its tag, children, class, attribute and     *)
(* prefix fields the values its constructor call stored.  A field holding  *)
(* a one-shot iterator keeps holding that iterator; the cursor belongs to  *)
(* the iterator, not to the node.                                          *)
(***************************************************************************)
VoidTags == {TagBr, <<"h", "r">>, <<"i", "m", "g">>}

\* the object the constructor call returned
Constructed(call) ==
    IF call.fn = <<>> THEN DangerousHTML(call.args[1].s)
    ELSE IF call.fn = TagHtml THEN Html(call.args, call.kwargs)
    ELSE IF call.fn \in VoidTags THEN VoidElement(call.fn, call.args, call.kwargs)
    ELSE NormalElement(call.fn, call.args, call.kwargs)

C16_NodesUnchanged ==
    /\ Len(calls) = Len(heap)
    /\ \A i \in 1..Len(heap) : heap[i] = Constructed(calls[i])

\* P("a", class_=it) and P(it) rendered, the second render finding the
\* iterator exhausted, and both fields still hold the iterator
C16_Witness ==
    /\ Rendered(out)
    /\ Rendered(prev)
    /\ prev.node # out.node
    /\ prev.html # out.html
    /\ \E i, j \in 1..Len(heap) :
          /\ heap[i].children = VIter(1)
          /\ heap[j].class_ = VIter(1)
          /\ {i, j} = {out.node, prev.node}
    /\ Exhausted(iters, 1)
    /\ \A i \in 1..Len(heap) : heap[i] = Constructed(calls[i])

(***************************************************************************)
(* C17.  A constructor call with a clearly invalid argument fails at       *)
(* construction: no object holds a children value or a class value that is *)
(* neither a node, a string nor an iterable, or an attribute value that is *)
(* neither a string nor None, and no render raises an error.               *)
(***************************************************************************)
ValidChildren(v) == IsBaseTag(v) \/ IsStr(v) \/ IsIterable(v)

ValidClass(v) == IsStr(v) \/ IsIterable(v)

ValidAttr(attr) == \A j \in 1..Len(attr) : IsStr(attr[j].v) \/ attr[j].v = VNone

\* the object holds an argument no declared type admits
HoldsInvalid(self) ==
    \/ self.kind \in {"FullTag", "FullTagWithPrefix"} /\ ~ValidChildren(self.children)
    \/ self.kind # "DangerousHTML" /\ ~ValidClass(self.class_)
    \/ ~ValidAttr(self.attr)

C17_FailsAtConstruction ==
    /\ \A i \in 1..Len(heap) : ~HoldsInvalid(heap[i])
    /\ ~out.err

(***************************************************************************)
(* Concurrent renders.                                                     *)
(***************************************************************************)
\* the one-shot iterators a render of object i can reach
TreeIters(i) ==
    ChildrenIters(i)
        \cup {heap[d].class_.id : d \in {b \in Below(i) : heap[b].class_.t = "iter"}}

Started == {t \in ThreadIds : threads[t].st # "idle"}

\* the tree thread t renders has no iterator in common with the tree of
\* another thread
SharesNoIterator(t) ==
    \A u \in Started \ {t} : TreeIters(threads[t].root) \cap TreeIters(threads[u].root) = {}

(***************************************************************************)
(* C18.  Renders of different trees share no mutable state: in every       *)
(* interleaving of two concurrent renders whose trees have no one-shot     *)
(* iterator in common, each render returns exactly the string (or raises   *)
(* as) it does when run alone.                                             *)
(***************************************************************************)
C18_NoSharedState ==
    \A t \in ThreadIds :
        (threads[t].st = "done" /\ SharesNoIterator(t)) =>
            /\ threads[t].buf = threads[t].alone.html
            /\ threads[t].err = threads[t].alone.err

\* thread b rendered P("<&") from start to end while thread a was in the
\* middle of rendering P(iter(["a", "<&"])), which a then finished
C18_Witness ==
    /\ threads["a"].st = "done"
    /\ threads["b"].st = "done"
    /\ threads["a"].root # threads["b"].root
    /\ Below(threads["a"].root) \cap Below(threads["b"].root) = {}
    /\ heap[threads["a"].root].children.t = "iter"
    /\ threads["a"].pulled = {<<1, 1>>, <<1, 2>>}
    /\ threads["a"].buf = <<"<", "p", ">", "a", "&", "l", "t", ";", "&", "a", "m", "p", ";",
                            "<", "/", "p", ">">>
    /\ threads["b"].buf = <<"<", "p", ">", "&", "l", "t", ";", "&", "a", "m", "p", ";",
                            "<", "/", "p", ">">>

RECURSIVE ChildOccurrences(_)
\* the number of child occurrences in the tree of object i
ChildOccurrences(i) ==
    LET self == heap[i]
        c == self.children
        RECURSIVE below(_)
        below(items) ==
            IF items = <<>> THEN 0
            ELSE (IF IsBaseTag(Head(items)) THEN ChildOccurrences(Head(items).id) ELSE 0)
                     + below(Tail(items))
    IN  IF self.kind \notin {"FullTag", "FullTagWithPrefix"} THEN 0
        ELSE IF c.t = "list" THEN Len(c.items) + below(c.items)
        ELSE IF IsBaseTag(c) \/ IsStr(c) THEN 1 + below(<<c>>)
        ELSE 0

\* some object of the tree of i holds a class value " ".join rejects
Unjoinable(i) ==
    \E d \in Below(i) :
        /\ heap[d].kind # "DangerousHTML"
        /\ ~IsStr(heap[d].class_)
        /\ \/ ~IsIterable(heap[d].class_)
           \/ ~AllStr(heap[d].class_.items)

Returned(t) ==
    LET th == threads[t]
    IN  th.st = "done" =>
            /\ th.stack = <<>>
            /\ TreeIters(th.root) = {} =>
                  /\ th.err = Unjoinable(th.root)
                  /\ ~th.err =>
                        /\ th.visits = ChildOccurrences(th.root)
                        /\ th.buf = EscapedOnce(th.root)
            /\ SharesNoIterator(t) =>
                  /\ th.err = th.alone.err
                  /\ th.buf = th.alone.html

C20_Terminates ==
    /\ \A t \in ThreadIds : (threads[t].st = "run") ~> (threads[t].st = "done")
    /\ [](\A t \in ThreadIds : Returned(t))

\* P([P("<&"), 42, P("<&")]) has been rendered: five child occurrences
C20_Witness ==
    \E t \in ThreadIds :
        /\ threads[t].st = "done"
        /\ ~threads[t].err
        /\ \E n \in 1..Len(heap) :
              /\ heap[threads[t].root].children = VList(<<VNode(n), VInt, VNode(n)>>)
              /\ heap[n].children = VStr(<<"<", "&">>)
        /\ threads[t].visits = 5
        /\ threads[t].buf = <<"<", "p", ">",
                              "<", "p", ">", "&", "l", "t", ";", "&", "a", "m", "p", ";",
                              "<", "/", "p", ">",
                              "<", "p", ">", "&", "l", "t", ";", "&", "a", "m", "p", ";",
                              "<", "/", "p", ">", "<", "/", "p", ">">>

(***************************************************************************)
(* Nesting of the tags of a rendered string.                               *)
(***************************************************************************)
\* the name of a start tag: its text up to the first space
TagName(tag) ==
    LET sp == {j \in 1..Len(tag) : tag[j] = " "}
    IN  IF sp = {} THEN tag
        ELSE SubSeq(tag, 1, (CHOOSE j \in sp : \A k \in sp : j <= k) - 1)

\* the open elements after the tag with the text tag (without < and >): an
\* end tag closes the innermost open element if it carries its name, a tag
\* ending in / opens nothing, any other tag opens an element
NestTag(st, tag) ==
    IF tag # <<>> /\ Head(tag) = "/" THEN
        IF st.stack # <<>> /\ st.stack[Len(st.stack)] = Tail(tag)
        THEN [st EXCEPT !.stack = SubSeq(@, 1, Len(@) - 1)]
        ELSE [st EXCEPT !.ok = FALSE]
    ELSE IF tag # <<>> /\ tag[Len(tag)] = "/" THEN st
    ELSE [st EXCEPT !.stack = Append(@, TagName(tag))]

\* one character of the tags of a string, read left to right
NestChar(st, c) ==
    IF c = "<" THEN [st EXCEPT !.cur = <<>>]
    ELSE IF c = ">" THEN NestTag([st EXCEPT !.cur = <<>>], st.cur)
    ELSE [st EXCEPT !.cur = Append(@, c)]

RECURSIVE Nest(_, _, _, _)
\* the tags skel[lo..hi] read from state st
Nest(skel, lo, hi, st) ==
    IF lo > hi THEN st
    ELSE IF lo = hi THEN NestChar(st, skel[lo])
    ELSE LET mid == (lo + hi) \div 2
             left == Nest(skel, lo, mid, st)
         IN  IF ~left.ok THEN left ELSE Nest(skel, mid + 1, hi, left)

\* every end tag of html closes the innermost open element and carries its
\* name, and no element is open at the end
WellNested(html) ==
    LET ts == TagStructure(html)
        st == Nest(ts.skel, 1, Len(ts.skel), [stack |-> <<>>, cur |-> <<>>, ok |-> TRUE])
    IN  ts.ok /\ st.ok /\ st.stack = <<>>

\* the tree of object i is built from full and self-closing elements only
ElementsOnly(h, i) ==
    \A d \in Descendants(h, i) : h[d].kind \in {"FullTag", "SelfClosingTag"}

(***************************************************************************)
(* C21.  The rendering of a tree built only from full elements,            *)
(* self-closing elements and text children, whose class values and         *)
(* attribute names hold no markup character, is well nested: read left to  *)
(* right, every end tag closes the most recently opened, still unclosed    *)
(* full element and carries its tag name, self-closing tags open nothing,  *)
(* and no element is left open at the end.                                 *)
(***************************************************************************)
C21_WellNested ==
    (Rendered(out) /\ ElementsOnly(heap, out.node) /\ SafeTree(heap, out.node)) =>
        WellNested(out.html)

\* P(P([Br(id="\">"), "<&"])) has been rendered
C21_Witness ==
    /\ Rendered(out)
    /\ out.node = 3
    /\ heap[1] = VoidElement(TagBr, <<>>, <<Kw(AttrId, VStr(Breakout))>>)
    /\ heap[2] = NormalElement(TagP, <<VList(<<VNode(1), VStr(<<"<", "&">>)>>)>>, <<>>)
    /\ heap[3] = NormalElement(TagP, <<VNode(2)>>, <<>>)
    /\ TagStructure(out.html).skel =
           <<"<", "p", ">", "<", "p", ">", "<", "b", "r", " ", "i", "d", "/", ">",
             "<", "/", "p", ">", "<", "/", "p", ">">>
    /\ WellNested(out.html)

\* the claim as stated, for every class value: violated by
\* Br(class_="\">"), rendered as <br class="">"/>, which reads as a start tag
\* that nothing closes
C21_Original ==
    (Rendered(out) /\ ElementsOnly(heap, out.node)) => WellNested(out.html)

(***************************************************************************)
(* C22.  When the class value of a node is a one-shot iterator, the render *)
(* that finds it fresh consumes it and emits the class attribute with all  *)
(* its names, as for the list of these names; every render that finds it   *)
(* exhausted emits no class attribute, as for the empty list; and the two  *)
(* outputs differ exactly in that class attribute, which the first has     *)
(* after the tag name and the later one has not.                           *)
(***************************************************************************)
\* the tree where the object i holds class_ instead of its class value
WithClass(i, class_) == [heap EXCEPT ![i].class_ = class_]

C22_Step ==
    \A i \in 1..Len(heap) :
        (Rendering(i) /\ heap[i].class_.t = "iter") =>
            LET k == heap[i].class_.id
                names == iters[k].items
                open == <<"<">> \o heap[i].tag
                asList == to_html_run(WithClass(i, VList(names)), i, iters)
                bare == to_html_run(WithClass(i, DefaultList), i, iters)
                later == to_html_run(heap, i, iters')
            IN  /\ Exhausted(iters', k)
                /\ ~later.err
                /\ later.html = bare.html
                /\ iters[k].pos = 0 =>
                      /\ Outcome(out') = Outcome(asList)
                      /\ out'.html = open \o ClassText(VList(names))
                                          \o SubSeq(later.html, Len(open) + 1, Len(later.html))
                /\ Exhausted(iters, k) => Outcome(out') = Outcome(bare)

C22_ClassConsumed == [][C22_Step]_vars

\* P("a", class_=iter(["a", "<&"])) rendered twice
C22_Witness ==
    /\ Rendered(out)
    /\ Rendered(prev)
    /\ prev.node = out.node
    /\ Self.class_.t = "iter"
    /\ Self.children = Plain
    /\ prev.html = <<"<", "p", " ", "c", "l", "a", "s", "s", "=", "\"", "a", " ", "<", "&", "\"",
                     ">", "a", "<", "/", "p", ">">>
    /\ out.html = <<"<", "p", ">", "a", "<", "/", "p", ">">>

====
